---- MODULE Spec2Model ----
(***************************************************************************)
(* A model of BackgroundAnnotator's services:                              *)
(*   services/background.py   set_background, resize_image,                *)
(*                            add_text_to_image, create_default_background *)
(*   services/explorer.py     get_asset                                    *)
(*   userinterface/mainwindow.py  MainWindow's handlers                    *)
(* set_background is modelled statement by statement, one action per       *)
(* statement that touches the file system or the OS, for several callers.  *)
(***************************************************************************)
EXTENDS Integers, Sequences, FiniteSets, TLC

VARIABLES
    platform,    \* platform.system()
    fs,          \* the file system: path -> entry
    pc,          \* per caller: the line of set_background it stands at
    source,      \* per caller: the argument `source`
    tmp_path,    \* per caller: the local tmp_path ("" = unset)
    image_path,  \* per caller: the local image_path ("" = unset)
    result,      \* per caller: the OS call's result (-1 = not called)
    oscall,      \* per caller: the path handed to SystemParametersInfoW
    unlinks,     \* per caller: successful image_path.unlink() calls
    unlink_err,  \* per caller: whether unlink raised OSError
    outcome,     \* per caller: what the call returned or raised
    tmp_owner,   \* per temporary name: the call that created the file
                 \* now standing under it (0 = no such file); history only
    \* get_asset
    frozen,      \* getattr(sys, "frozen", False)
    asset_files, \* the asset paths that exist on disk
    asset_req,   \* the relative_path of the last get_asset call
    asset_out,   \* what that call returned or raised
    \* resize_image, sizes only
    rs_size,     \* image.size of the argument
    rs_target,   \* target_size
    rs_keep,     \* keep_aspect_ratio
    rs_out,      \* the size of the returned image (<<0, 0>> = not called)
    \* add_text_to_image and resize_image on a caller's canvas
    canvas,      \* the caller's Image object: width, height, pixels
    ret,         \* the Image the last call returned
    ret_alias,   \* whether ret is the caller's object itself
    adopted,     \* whether the caller has rebound its canvas to a result
    lastop,      \* the last call: which one, and the arguments that matter
    \* create_default_background
    df_screen,   \* screen_size
    df_margin,   \* ugent_logo_margin
    df_width,    \* ugent_logo_width
    df_logo,     \* the image in assets/logo_ugent.png
    df_out,      \* the returned image
    df_box,      \* where the logo was pasted: <<left, top, right, bottom>>
    \* MainWindow
    original_image,           \* self._original_image, the base canvas
    image_with_text,          \* self._image_with_text, the annotated canvas
    preview_photo,            \* self._preview_photo
    image_entry,              \* the text in self._image_entry
    notes_text,               \* the text in self._notes_text
    text_x_position_percent,  \* self._text_x_position_percent
    text_y_position_percent,  \* self._text_y_position_percent
    text_size,                \* self._text_size
    text_color_hex,           \* self._text_color_hex
    notes_update_after_id,    \* self._notes_update_after_id (0 = None)
    timers,                   \* Tk's pending `after` callbacks
    after_count,              \* the ids `after` has handed out
    ui_last                   \* what the last handler did; history only

installVars == <<platform, fs, pc, source, tmp_path, image_path,
                 result, oscall, unlinks, unlink_err, outcome, tmp_owner>>

assetVars == <<frozen, asset_files, asset_req, asset_out>>

resizeVars == <<rs_size, rs_target, rs_keep, rs_out>>

canvasVars == <<canvas, ret, ret_alias, adopted, lastop>>

defaultVars == <<df_screen, df_margin, df_width, df_logo, df_out, df_box>>

uiVars == <<original_image, image_with_text, preview_photo, image_entry,
            notes_text, text_x_position_percent, text_y_position_percent,
            text_size, text_color_hex, notes_update_after_id, timers,
            after_count, ui_last>>

vars == <<installVars, assetVars, resizeVars, canvasVars, defaultVars, uiVars>>

\* What each part of the model leaves alone.
notInstall == <<assetVars, resizeVars, canvasVars, defaultVars, uiVars>>
notAsset == <<installVars, resizeVars, canvasVars, defaultVars, uiVars>>
notResize == <<installVars, assetVars, canvasVars, defaultVars, uiVars>>
notCanvas == <<installVars, assetVars, resizeVars, defaultVars, uiVars>>
notDefault == <<installVars, assetVars, resizeVars, canvasVars, uiVars>>
notUI == <<installVars, assetVars, resizeVars, canvasVars, defaultVars>>

----------------------------------------------------------------------------
(* Bounds *)

NumCallers == 2

----------------------------------------------------------------------------
(* Values *)

Callers == 1..NumCallers

Platforms == {"Windows", "Linux", "Darwin"}

NoPath == ""

\* The names tempfile can hand out; NamedTemporaryFile picks one that does
\* not exist yet.
TmpNameTable == <<"/tmp/tmp1.bmp", "/tmp/tmp2.bmp", "/tmp/tmp3.bmp",
                  "/tmp/tmp4.bmp", "/tmp/tmp5.bmp">>
TmpPaths == {TmpNameTable[i] : i \in 1..NumCallers + 1}

\* Paths a caller may pass, as written by the caller.
RawPaths == {"~/wall.png", "/home/u/wall.png", "/home/u/pics",
             "/nonexistent/file.png"}

\* Path(source).expanduser().resolve()
Resolve(p) == IF p = "~/wall.png" THEN "/home/u/wall.png" ELSE p

ExtPaths == {Resolve(p) : p \in RawPaths}
AllPaths == ExtPaths \cup TmpPaths

NoFile == [kind |-> "none", fmt |-> "", image |-> 0, mode |-> ""]
Dir == [kind |-> "dir", fmt |-> "", image |-> 0, mode |-> ""]
EmptyFile == [kind |-> "file", fmt |-> "", image |-> 0, mode |-> ""]
ExtFile == [kind |-> "file", fmt |-> "PNG", image |-> 0, mode |-> "RGBA"]

Images == [id : {1}, mode : {"RGB", "RGBA"}]

\* source.convert("RGB")
ConvertRGB(img) == [img EXCEPT !.mode = "RGB"]

\* img.save(tmp_path, format="BMP")
BmpFile(img) == [kind |-> "file", fmt |-> "BMP", image |-> img.id, mode |-> img.mode]

Sources == {[type |-> "image", img |-> i, path |-> NoPath] : i \in Images}
           \cup {[type |-> "path", img |-> [id |-> 0, mode |-> ""], path |-> p] : p \in RawPaths}
NoSource == [type |-> "none", img |-> [id |-> 0, mode |-> ""], path |-> NoPath]

NoOutcome == [kind |-> "none", exc |-> "", value |-> NoPath]
Raise(e) == [kind |-> "raise", exc |-> e, value |-> NoPath]
Return(p) == [kind |-> "return", exc |-> "", value |-> p]

----------------------------------------------------------------------------
(* set_background *)

\* A set_background without the platform test of line 140.
PlatformSupported_NoCheck == TRUE

\* line 140: platform.system() != "Windows" is the failing case
PlatformSupported == platform = "Windows"

\* line 144: isinstance(source, Image.Image)
IsImage(src) == src.type = "image"

\* A set_background that unlinks image_path whatever the source was.
OwnsFile_Always(c) == TRUE

\* line 170: isinstance(source, Image.Image): the call made the file itself
OwnsFile(c) == IsImage(source[c])

\* image_path.exists() in place of is_file(): a directory passes.
IsFile_Exists(p) == p \in DOMAIN fs /\ fs[p].kind # "none"

\* line 155: image_path.is_file()
IsFile(p) == p \in DOMAIN fs /\ fs[p].kind = "file"

\* line 166: result == 0 raises RuntimeError
OSCallFailed(r) == r = 0

\* A set_background without the try/except around unlink.
UnlinkErrorOutcome_Propagates == Raise("OSError")

\* lines 173-174: except OSError: pass  (nothing propagates)
UnlinkErrorOutcome == NoOutcome

\* Where a call stands once the OS call has returned r (lines 166-176): the
\* next line it has to run, or "done" with what it raised or returned.
AfterOSCall(c, r) ==
    IF OSCallFailed(r) THEN [pc |-> "done", outcome |-> Raise("RuntimeError")]
    ELSE IF OwnsFile(c) THEN [pc |-> "L172", outcome |-> NoOutcome]
    ELSE [pc |-> "done", outcome |-> Return(image_path[c])]

InstallInit ==
    /\ platform \in Platforms
    /\ fs \in {f \in [AllPaths -> {NoFile, Dir, ExtFile}] :
                 /\ \A t \in TmpPaths : f[t] = NoFile
                 /\ f["/home/u/pics"] = Dir
                 /\ f["/nonexistent/file.png"] = NoFile
                 /\ f["/home/u/wall.png"] \in {NoFile, ExtFile}}
    /\ pc = [c \in Callers |-> "idle"]
    /\ source = [c \in Callers |-> NoSource]
    /\ tmp_path = [c \in Callers |-> NoPath]
    /\ image_path = [c \in Callers |-> NoPath]
    /\ result = [c \in Callers |-> -1]
    /\ oscall = [c \in Callers |-> NoPath]
    /\ unlinks = [c \in Callers |-> 0]
    /\ unlink_err = [c \in Callers |-> FALSE]
    /\ outcome = [c \in Callers |-> NoOutcome]
    /\ tmp_owner = [t \in TmpPaths |-> 0]

InstallIdle ==
    /\ platform = "Windows"
    /\ fs = [p \in AllPaths |-> NoFile]
    /\ pc = [c \in Callers |-> "idle"]
    /\ source = [c \in Callers |-> NoSource]
    /\ tmp_path = [c \in Callers |-> NoPath]
    /\ image_path = [c \in Callers |-> NoPath]
    /\ result = [c \in Callers |-> -1]
    /\ oscall = [c \in Callers |-> NoPath]
    /\ unlinks = [c \in Callers |-> 0]
    /\ unlink_err = [c \in Callers |-> FALSE]
    /\ outcome = [c \in Callers |-> NoOutcome]
    /\ tmp_owner = [t \in TmpPaths |-> 0]

\* A caller enters set_background(source); lines 140-144.
Call(c, src) ==
    /\ pc[c] = "idle"
    /\ source' = [source EXCEPT ![c] = src]
    /\ IF ~PlatformSupported
       THEN /\ pc' = [pc EXCEPT ![c] = "done"]
            /\ outcome' = [outcome EXCEPT ![c] = Raise("NotImplementedError")]
       ELSE /\ pc' = [pc EXCEPT ![c] = IF IsImage(src) THEN "L147" ELSE "L154"]
            /\ UNCHANGED outcome
    /\ UNCHANGED <<platform, fs, tmp_path, image_path, result, oscall,
                   unlinks, unlink_err, tmp_owner>>
    /\ UNCHANGED notInstall

\* A temporary name taken without looking whether it is in use.
FreshName_Any(t) == TRUE

\* line 147: NamedTemporaryFile creates the file exclusively, so the name it
\* returns is one under which no file stood
FreshName(t) == fs[t] = NoFile

\* lines 146-149: NamedTemporaryFile(suffix=".bmp", delete=False); close()
CreateTemp(c) ==
    /\ pc[c] = "L147"
    /\ \E t \in TmpPaths :
          /\ FreshName(t)
          /\ fs' = [fs EXCEPT ![t] = EmptyFile]
          /\ tmp_path' = [tmp_path EXCEPT ![c] = t]
          /\ tmp_owner' = [tmp_owner EXCEPT ![t] = c]
    /\ pc' = [pc EXCEPT ![c] = "L150"]
    /\ UNCHANGED <<platform, source, image_path, result, oscall, unlinks,
                   unlink_err, outcome>>
    /\ UNCHANGED notInstall

\* lines 150-151: img.save(tmp_path, format="BMP"); image_path = tmp_path
SaveTemp(c) ==
    /\ pc[c] = "L150"
    /\ fs' = [fs EXCEPT ![tmp_path[c]] = BmpFile(ConvertRGB(source[c].img))]
    /\ image_path' = [image_path EXCEPT ![c] = tmp_path[c]]
    /\ pc' = [pc EXCEPT ![c] = "L159"]
    /\ UNCHANGED <<platform, source, tmp_path, result, oscall, unlinks,
                   unlink_err, outcome, tmp_owner>>
    /\ UNCHANGED notInstall

\* line 150 when the write fails (disk full): OSError leaves the function
SaveTempFails(c) ==
    /\ pc[c] = "L150"
    /\ pc' = [pc EXCEPT ![c] = "done"]
    /\ outcome' = [outcome EXCEPT ![c] = Raise("OSError")]
    /\ UNCHANGED <<platform, fs, source, tmp_path, image_path, result,
                   oscall, unlinks, unlink_err, tmp_owner>>
    /\ UNCHANGED notInstall

\* lines 154-156
ResolvePath(c) ==
    /\ pc[c] = "L154"
    /\ image_path' = [image_path EXCEPT ![c] = Resolve(source[c].path)]
    /\ IF ~IsFile(Resolve(source[c].path))
       THEN /\ pc' = [pc EXCEPT ![c] = "done"]
            /\ outcome' = [outcome EXCEPT ![c] = Raise("FileNotFoundError")]
       ELSE /\ pc' = [pc EXCEPT ![c] = "L159"]
            /\ UNCHANGED outcome
    /\ UNCHANGED <<platform, fs, source, tmp_path, result, oscall, unlinks,
                   unlink_err, tmp_owner>>
    /\ UNCHANGED notInstall

\* lines 159-170: SystemParametersInfoW(20, 0, str(image_path), 3) returns
\* r (0 on failure); then the result check and the isinstance test.
ApplyOS(c, r) ==
    /\ pc[c] = "L159"
    /\ result' = [result EXCEPT ![c] = r]
    /\ oscall' = [oscall EXCEPT ![c] = image_path[c]]
    /\ pc' = [pc EXCEPT ![c] = AfterOSCall(c, r).pc]
    /\ outcome' = [outcome EXCEPT ![c] = AfterOSCall(c, r).outcome]
    /\ UNCHANGED <<platform, fs, source, tmp_path, image_path, unlinks,
                   unlink_err, tmp_owner>>
    /\ UNCHANGED notInstall

\* lines 172 and 176: image_path.unlink() succeeds; return image_path
Unlink(c) ==
    /\ pc[c] = "L172"
    /\ fs[image_path[c]] # NoFile
    /\ fs' = [fs EXCEPT ![image_path[c]] = NoFile]
    /\ unlinks' = [unlinks EXCEPT ![c] = @ + 1]
    /\ pc' = [pc EXCEPT ![c] = "done"]
    /\ outcome' = [outcome EXCEPT ![c] = Return(image_path[c])]
    /\ tmp_owner' = [t \in TmpPaths |->
                        IF t = image_path[c] THEN 0 ELSE tmp_owner[t]]
    /\ UNCHANGED <<platform, source, tmp_path, image_path, result, oscall,
                   unlink_err>>
    /\ UNCHANGED notInstall

\* lines 172-176: image_path.unlink() raises OSError (the file is still in
\* use, or is gone); the handler runs, then return image_path
UnlinkFails(c) ==
    /\ pc[c] = "L172"
    /\ unlink_err' = [unlink_err EXCEPT ![c] = TRUE]
    /\ pc' = [pc EXCEPT ![c] = "done"]
    /\ outcome' = [outcome EXCEPT ![c] =
                      IF UnlinkErrorOutcome = NoOutcome
                      THEN Return(image_path[c]) ELSE UnlinkErrorOutcome]
    /\ UNCHANGED <<platform, fs, source, tmp_path, image_path, result,
                   oscall, unlinks, tmp_owner>>
    /\ UNCHANGED notInstall

InstallNext ==
    \/ \E c \in Callers, src \in Sources : Call(c, src)
    \/ \E c \in Callers : CreateTemp(c)
    \/ \E c \in Callers : SaveTemp(c)
    \/ \E c \in Callers : SaveTempFails(c)
    \/ \E c \in Callers : ResolvePath(c)
    \/ \E c \in Callers, r \in {0, 1} : ApplyOS(c, r)
    \/ \E c \in Callers : Unlink(c)
    \/ \E c \in Callers : UnlinkFails(c)


----------------------------------------------------------------------------
(* get_asset (services/explorer.py) *)

\* Paths are sequences of components; an absolute path starts with "/".
\* sys._MEIPASS
MeiPass == <<"/", "tmp", "_MEI1">>

\* Path(__file__).resolve().parent.parent
PackageDir == <<"/", "app", "backgroundannotator">>

\* The logical names consumers pass.
AssetNames == {<<"assets", "logo_ugent.png">>, <<"assets", "font_ugent.ttf">>,
               <<"assets", "bob.ico">>, <<"assets", "missing.png">>}

\* pathlib's base / relative_path
Join(base, rel) == IF rel # <<>> /\ rel[1] = "/" THEN rel ELSE base \o rel

AssetPaths == {Join(b, n) : b \in {MeiPass, PackageDir}, n \in AssetNames}

AssetNoOutcome == [kind |-> "none", exc |-> "", value |-> <<>>]
AssetRaise(e) == [kind |-> "raise", exc |-> e, value |-> <<>>]
AssetReturn(p) == [kind |-> "return", exc |-> "", value |-> p]

\* A get_asset that always uses the source tree.
AssetBase_IgnoresFrozen == PackageDir

\* lines 89-98: the base directory
AssetBase == IF frozen THEN MeiPass ELSE PackageDir

\* line 100: return base / relative_path
GetAssetOutcome(rel) == AssetReturn(Join(AssetBase, rel))

AssetInit ==
    /\ frozen \in BOOLEAN
    /\ asset_files \in SUBSET AssetPaths
    /\ asset_req = <<>>
    /\ asset_out = AssetNoOutcome

AssetIdle ==
    /\ frozen = FALSE
    /\ asset_files = {}
    /\ asset_req = <<>>
    /\ asset_out = AssetNoOutcome

\* get_asset(relative_path)
GetAsset(rel) ==
    /\ asset_req' = rel
    /\ asset_out' = GetAssetOutcome(rel)
    /\ UNCHANGED <<frozen, asset_files>>
    /\ UNCHANGED notAsset

AssetNext == \E rel \in AssetNames : GetAsset(rel)

----------------------------------------------------------------------------
(* resize_image (services/background.py), the size it returns *)

\* Largest width and height of the small images drawn in Init.
MaxDim == 4

\* create_default_background's default screen_size
ScreenWidth == 1920
ScreenHeight == 1080

\* target_size of the preview in MainWindow._update_preview_image
PreviewWidth == 650
PreviewHeight == 350

Dims == 1..MaxDim
SmallSizes == Dims \X Dims
NotCalled == <<0, 0>>

Abs(i) == IF i < 0 THEN -i ELSE i
Max(a, b) == IF a > b THEN a ELSE b
Min(a, b) == IF a < b THEN a ELSE b
Floor(num, den) == num \div den
Ceil(num, den) == (num + den - 1) \div den

\* Image.thumbnail's round_aspect, always rounding up.
RoundAspect_Ceil(f, c, keyf, keyc) == Max(c, 1)

\* Image.thumbnail's round_aspect: max(min(floor, ceil, key=key), 1), where
\* min keeps the floor on a tie; keyf and keyc are the two keys over a common
\* denominator.
RoundAspect(f, c, keyf, keyc) == Max(IF keyf <= keyc THEN f ELSE c, 1)

\* Image.thumbnail's preserve_aspect_ratio past its early return, with
\* aspect = w / h: if x / y >= aspect the width becomes
\* round_aspect(y * aspect) with key abs(aspect - n / y), else the height
\* becomes round_aspect(x / aspect) with key 0 for n = 0 and
\* abs(aspect - x / n) otherwise.
ScaledSize(size, target) ==
    LET w == size[1]  h == size[2]  x == target[1]  y == target[2]
        fw == Floor(y * w, h)  cw == Ceil(y * w, h)
        fh == Floor(x * h, w)  ch == Ceil(x * h, w)
    IN IF x * h >= w * y
       THEN <<RoundAspect(fw, cw, Abs(w * y - fw * h), Abs(w * y - cw * h)), y>>
       ELSE <<x, RoundAspect(fh, ch,
                             IF fh = 0 THEN 0 ELSE Abs(w * fh - x * h) * ch,
                             IF fh = 0 THEN Abs(w * ch - x * h)
                                       ELSE Abs(w * ch - x * h) * fh)>>

\* A thumbnail that does not return early when the image already fits.
ThumbnailSize_NoFitCheck(size, target) == ScaledSize(size, target)

\* line 75: image.thumbnail(target_size, LANCZOS): the size the image gets;
\* nothing changes when the image fits the target.
ThumbnailSize(size, target) ==
    IF target[1] >= size[1] /\ target[2] >= size[2] THEN size
    ELSE ScaledSize(size, target)

\* lines 74-77: the size of the image resize_image returns
ResizeSize(size, target, keep) ==
    IF keep THEN ThumbnailSize(size, target) ELSE target

ResizeInit ==
    /\ rs_size \in SmallSizes \cup {<<ScreenWidth, ScreenHeight>>}
    /\ rs_target \in SmallSizes \cup {<<PreviewWidth, PreviewHeight>>}
    /\ rs_keep \in BOOLEAN
    /\ rs_out = NotCalled

ResizeIdle ==
    /\ rs_size = <<1, 1>>
    /\ rs_target = <<1, 1>>
    /\ rs_keep = FALSE
    /\ rs_out = NotCalled

\* resize_image(image, target_size, keep_aspect_ratio)
ResizeCall ==
    /\ rs_out = NotCalled
    /\ rs_out' = ResizeSize(rs_size, rs_target, rs_keep)
    /\ UNCHANGED <<rs_size, rs_target, rs_keep>>
    /\ UNCHANGED notResize

ResizeNext == ResizeCall

----------------------------------------------------------------------------
(* add_text_to_image and resize_image (services/background.py) on pixels *)

\* Largest width and height of a canvas with pixels.
CanvasDim == 2

CanvasDims == 1..CanvasDim

\* Image.new(mode, size, color): px[y][x] is the pixel in row y, column x.
NewImage(w, h, color) ==
    [w |-> w, h |-> h, px |-> [y \in 1..h |-> [x \in 1..w |-> color]]]

NoImage == [w |-> 0, h |-> 0, px |-> <<>>]

BaseColors == {"#1E64C8", "#000000"}
TextColors == {"#FFFFFF", "#FF0000"}
Texts == {<<>>, <<"a">>, <<"a", "b">>}
TextSizes == {1, 2}
\* Text positions, in pixels from the top-left corner, in the first two
\* rows; 100 % of the width lies just outside the canvas.
Positions == (0..CanvasDim) \X {0, 1}

\* line 112: draw.text(xy, text, font, fill): glyph i fills the cell of
\* text_size by text_size pixels at xy + ((i - 1) * text_size, 0); what falls
\* outside the image is clipped.
InGlyph(x, y, text, pos, size) ==
    \E i \in 1..Len(text) :
        /\ pos[1] + (i - 1) * size < x
        /\ x <= pos[1] + i * size
        /\ pos[2] < y
        /\ y <= pos[2] + size

DrawText(img, text, pos, size, color) ==
    [img EXCEPT !.px = [y \in 1..img.h |-> [x \in 1..img.w |->
        IF InGlyph(x, y, text, pos, size) THEN color ELSE img.px[y][x]]]]

\* Image.resize / the resize inside Image.thumbnail: the pixels of an image
\* brought to `size` (nearest source pixel; the filter is not modelled).
Resample(img, size) ==
    [w |-> size[1], h |-> size[2],
     px |-> [y \in 1..size[2] |-> [x \in 1..size[1] |->
               img.px[((y - 1) * img.h) \div size[2] + 1]
                     [((x - 1) * img.w) \div size[1] + 1]]]]

\* An add_text_to_image that draws on the image it was given.
CopyForText_Omitted == FALSE

\* line 106: image = image.copy()
CopyForText == TRUE

\* A resize_image without the copy of lines 71-72.
CopyForResize_Omitted(in_place) == FALSE

\* lines 71-72: if not in_place: image = image.copy()
CopyForResize(in_place) == ~in_place

NoOp == [op |-> "none", in_place |-> FALSE, keep |-> FALSE, color |-> "",
         empty |-> FALSE, prev |-> ""]

\* The colour of the text the call before this one drew, if it was an
\* add_text_to_image that put text on the image ("" otherwise).
ShownColor ==
    IF /\ lastop.op = "add_text"
       /\ \E y \in 1..ret.h : \E x \in 1..ret.w : ret.px[y][x] = lastop.color
    THEN lastop.color ELSE ""

CanvasInit ==
    /\ canvas \in {NewImage(w, h, c) : w \in CanvasDims, h \in CanvasDims,
                                       c \in BaseColors}
    /\ ret = NoImage
    /\ ret_alias = FALSE
    /\ adopted = FALSE
    /\ lastop = NoOp

CanvasIdle ==
    /\ canvas = NoImage
    /\ ret = NoImage
    /\ ret_alias = FALSE
    /\ adopted = FALSE
    /\ lastop = NoOp

\* add_text_to_image(canvas, text, pos, size, color), lines 103-114
AddText(text, pos, size, color) ==
    LET drawn == DrawText(canvas, text, pos, size, color)
    IN /\ ret' = drawn
       /\ canvas' = IF CopyForText THEN canvas ELSE drawn
       /\ ret_alias' = ~CopyForText
       /\ lastop' = [op |-> "add_text", in_place |-> FALSE, keep |-> FALSE,
                     color |-> color, empty |-> (text = <<>>),
                     prev |-> ShownColor]
       /\ UNCHANGED adopted
       /\ UNCHANGED notCanvas

\* resize_image(canvas, target, keep, in_place), lines 71-77: thumbnail
\* changes the image it is called on and that image is returned;
\* Image.resize returns a new image.
ResizeImage(target, keep, in_place) ==
    LET size == ResizeSize(<<canvas.w, canvas.h>>, target, keep)
        out == IF size = <<canvas.w, canvas.h>> THEN canvas
               ELSE Resample(canvas, size)
        same == keep /\ ~CopyForResize(in_place)
    IN /\ ret' = out
       /\ canvas' = IF same THEN out ELSE canvas
       /\ ret_alias' = same
       /\ lastop' = [op |-> "resize", in_place |-> in_place, keep |-> keep,
                     color |-> "", empty |-> FALSE, prev |-> ShownColor]
       /\ UNCHANGED adopted
       /\ UNCHANGED notCanvas

\* The caller goes on with the returned image as its canvas (as
\* MainWindow does with _image_with_text); once.
Adopt ==
    /\ ret # NoImage
    /\ ~adopted
    /\ adopted' = TRUE
    /\ canvas' = ret
    /\ ret_alias' = TRUE
    /\ lastop' = [NoOp EXCEPT !.op = "adopt"]
    /\ UNCHANGED ret
    /\ UNCHANGED notCanvas

CanvasNext ==
    \/ \E text \in Texts, pos \in Positions, size \in TextSizes,
          color \in TextColors : AddText(text, pos, size, color)
    \/ \E target \in CanvasDims \X CanvasDims, keep \in BOOLEAN,
          in_place \in BOOLEAN : ResizeImage(target, keep, in_place)
    \/ Adopt

----------------------------------------------------------------------------
(* create_default_background (services/background.py) *)

\* Largest screen width and height, margin and logo width drawn in Init.
MaxScreen == 5
MaxMargin == 1
MaxLogoWidth == 3

BrandColor == "#1E64C8"

\* The logo file: an RGBA image whose pixels are opaque ("logo") or fully
\* transparent ("clear"), in a checked pattern starting opaque.
LogoFile(w, h) ==
    [w |-> w, h |-> h,
     px |-> [y \in 1..h |-> [x \in 1..w |->
               IF (x + y) % 2 = 0 THEN "logo" ELSE "clear"]]]

\* The sizes the logo file may have.
LogoFiles == {LogoFile(2, 1), LogoFile(2, 2), LogoFile(4, 2)}

\* lines 39-41: logo.thumbnail(size=(width, int(width * h / w) + 1))
LogoThumbnail(logo, width) ==
    LET size == ThumbnailSize(<<logo.w, logo.h>>,
                              <<width, (width * logo.h) \div logo.w + 1>>)
    IN IF size = <<logo.w, logo.h>> THEN logo ELSE Resample(logo, size)

\* line 44: the box argument, the top-left corner of the paste
PasteCorner(screen, width, margin) == <<screen[1] - width - margin, margin>>

\* line 44: image.paste(im, box, mask=im): the pixels of im replace those of
\* image where the mask is opaque; what falls outside image is clipped.
Paste(image, im, corner) ==
    [image EXCEPT !.px = [y \in 1..image.h |-> [x \in 1..image.w |->
        LET lx == x - corner[1]
            ly == y - corner[2]
        IN IF /\ lx >= 1 /\ lx <= im.w /\ ly >= 1 /\ ly <= im.h
              /\ im.px[ly][lx] # "clear"
           THEN im.px[ly][lx] ELSE image.px[y][x]]]]

NoBox == <<0, 0, 0, 0>>

DefaultInit ==
    /\ df_screen \in (1..MaxScreen) \X (1..MaxScreen)
    /\ df_margin \in 0..MaxMargin
    /\ df_width \in 1..MaxLogoWidth
    /\ df_logo \in LogoFiles
    /\ df_out = NoImage
    /\ df_box = NoBox

DefaultIdle ==
    /\ df_screen = <<1, 1>>
    /\ df_margin = 0
    /\ df_width = 1
    /\ df_logo = NoImage
    /\ df_out = NoImage
    /\ df_box = NoBox

\* create_default_background(screen_size, ugent_logo_margin,
\* ugent_logo_width), lines 33-46
CreateDefault ==
    LET image == NewImage(df_screen[1], df_screen[2], BrandColor)
        logo == LogoThumbnail(df_logo, df_width)
        corner == PasteCorner(df_screen, df_width, df_margin)
    IN /\ df_out = NoImage
       /\ df_out' = Paste(image, logo, corner)
       /\ df_box' = <<corner[1], corner[2], corner[1] + logo.w, corner[2] + logo.h>>
       /\ UNCHANGED <<df_screen, df_margin, df_width, df_logo>>
       /\ UNCHANGED notDefault

DefaultNext == CreateDefault

----------------------------------------------------------------------------
(* MainWindow (userinterface/mainwindow.py) *)

\* Tk runs one handler at a time on the main thread, so a handler is one
\* action.  A handler that opens a modal dialog does nothing before the
\* dialog returns (timers run meanwhile), so its action is what it does
\* with the dialog's answer.  Canvases are small-scale: the default
\* background is 2 by 2 pixels with the logo in its top-right pixel, the
\* image file is 4 by 2.

\* Most key releases in the notes box in one run.
MaxKeys == 2

NoId == 0

Whitespace == {" ", "\n"}

\* str.strip()
Strip(s) ==
    LET keep == {i \in 1..Len(s) : s[i] \notin Whitespace}
    IN IF keep = {} THEN <<>>
       ELSE SubSeq(s, CHOOSE i \in keep : \A j \in keep : i <= j,
                      CHOOSE i \in keep : \A j \in keep : i >= j)

\* What the user may have in the notes box.
NotesTexts == {<<>>, <<"a", " ">>, <<"a", "b">>}

\* line 229: self._notes_text.get("1.0", tk.END): the text and Tk's final
\* newline
NotesGet(notes) == Append(notes, "\n")

\* What the user may enter as x percentage, y percentage, text size and
\* colour; the first is what __init__ sets (lines 24-27), at small scale.
\* The entries always hold values add_text_to_image accepts.
OptionChoices == {<<50, 50, 1, "#FFFFFF">>, <<0, 0, 2, "#FF0000">>}

\* What the colour chooser may return.
ChooserColors == {"#FF0000"}

\* What the image entry may hold: sequences of whitespace and file names.
ImageEntries == {<<>>, <<"wall.png">>, <<"notes.txt">>, <<"gone.png">>}

\* The files on disk: an image and a file that is no image; any other
\* name does not exist.
DiskFile(name) ==
    IF name = "wall.png" THEN "image"
    ELSE IF name = "notes.txt" THEN "garbage"
    ELSE "none"

\* The pixels in wall.png: a grey-scale image with alpha, black with one
\* transparent pixel.
WallFile ==
    [w |-> 4, h |-> 2,
     px |-> [y \in 1..2 |-> [x \in 1..4 |->
               IF x = 4 /\ y = 2 THEN "clear" ELSE "black"]]]

\* line 202: img.convert("RGBA")
ConvertRGBA(img) ==
    [img EXCEPT !.px = [y \in 1..img.h |-> [x \in 1..img.w |->
        IF img.px[y][x] = "black" THEN "#000000" ELSE img.px[y][x]]]]

\* line 276: image_to_save.convert("RGB"): alpha is dropped
ConvertPixelsRGB(img) ==
    [img EXCEPT !.px = [y \in 1..img.h |-> [x \in 1..img.w |->
        IF img.px[y][x] = "clear" THEN "#000000" ELSE img.px[y][x]]]]

\* lines 20 and 179: create_default_background(), at small scale
UiScreen == <<2, 2>>
DefaultBackground ==
    Paste(NewImage(UiScreen[1], UiScreen[2], BrandColor),
          LogoThumbnail(LogoFile(2, 1), 1), PasteCorner(UiScreen, 1, 0))

\* lines 233-236: int(percent / 100 * size); the floating-point product
\* is exact for the percentages of OptionChoices
Scale(percent, size) == (percent * size) \div 100

\* add_text_to_image(image, text, text_position, text_size, text_color),
\* lines 103-114, as a function: it draws on a copy and returns the copy
AddTextToImage(image, text, pos, size, color) ==
    DrawText(image, text, pos, size, color)

\* A refresh that draws on the canvas annotated last time.
OverlayBase_Annotated(orig, annotated) == annotated

\* line 228: image=self._original_image
OverlayBase(orig, annotated) == orig

\* lines 228-237: the call of add_text_to_image with what the widgets hold
Overlay(orig, annotated, color) ==
    AddTextToImage(OverlayBase(orig, annotated), Strip(NotesGet(notes_text)),
                   <<Scale(text_x_position_percent, orig.w),
                     Scale(text_y_position_percent, orig.h)>>,
                   text_size, color)

\* line 240: resize_image(image=self._image_with_text, target_size=(650,
\* 350)), on a copy
Preview(img) ==
    LET size == ResizeSize(<<img.w, img.h>>, <<PreviewWidth, PreviewHeight>>,
                           TRUE)
    IN IF size = <<img.w, img.h>> THEN img ELSE Resample(img, size)

\* What the last handler did: its name ("nothing" if it changed nothing or
\* none ran); whether _update_preview_image ran in it; whether the
\* annotated canvas carried other text before;
\* for a timer, the number of key releases in the burst that ended with it;
\* for Save and Set as Desktop Background, the canvas given away.
Event(ev) ==
    [ev |-> ev, refreshed |-> FALSE, over |-> FALSE, burst |-> 0,
     handed |-> NoImage]

\* after_cancel without effect.
AfterCancel_Omitted(pending, id) == pending

\* line 217: self.after_cancel(id)
AfterCancel(pending, id) == {t \in pending : t.id # id}

UIInit ==
    /\ original_image = DefaultBackground
    /\ image_with_text = DefaultBackground
    /\ preview_photo = Preview(DefaultBackground)
    /\ image_entry = <<>>
    /\ notes_text = <<>>
    /\ text_x_position_percent = 50
    /\ text_y_position_percent = 50
    /\ text_size = 1
    /\ text_color_hex = "#FFFFFF"
    /\ notes_update_after_id = NoId
    /\ timers = {}
    /\ after_count = 0
    /\ ui_last = Event("init")

UIIdle ==
    /\ original_image = NoImage
    /\ image_with_text = NoImage
    /\ preview_photo = NoImage
    /\ image_entry = <<>>
    /\ notes_text = <<>>
    /\ text_x_position_percent = 50
    /\ text_y_position_percent = 50
    /\ text_size = 1
    /\ text_color_hex = "#FFFFFF"
    /\ notes_update_after_id = NoId
    /\ timers = {}
    /\ after_count = 0
    /\ ui_last = Event("init")

\* _update_preview_image, lines 222-248, on base canvas orig with the
\* colour entry holding color; annotated is _image_with_text before the
\* call.
UpdatePreview(orig, annotated, color, ev, burst) ==
    LET new == Overlay(orig, annotated, color)
    IN /\ image_with_text' = new
       /\ preview_photo' = Preview(new)
       /\ ui_last' = [Event(ev) EXCEPT
                         !.refreshed = TRUE,
                         !.over = (image_with_text \notin {original_image, new}),
                         !.burst = burst]

\* The user edits the notes box and releases the key: _on_notes_key_release,
\* lines 213-220.
NotesKeyRelease(text) ==
    /\ after_count < MaxKeys
    /\ notes_text' = text
    /\ LET old == {t \in timers : t.id = notes_update_after_id}
           kept == IF notes_update_after_id # NoId
                   THEN AfterCancel(timers, notes_update_after_id)
                   ELSE timers
           burst == IF \E t \in old : ~t.due
                    THEN (CHOOSE t \in old : TRUE).burst + 1 ELSE 1
       IN timers' = kept \cup {[id |-> after_count + 1, due |-> FALSE,
                                burst |-> burst]}
    /\ notes_update_after_id' = after_count + 1
    /\ after_count' = after_count + 1
    /\ ui_last' = Event("key_release")
    /\ UNCHANGED <<original_image, image_with_text, preview_photo,
                   image_entry, text_x_position_percent,
                   text_y_position_percent, text_size, text_color_hex>>
    /\ UNCHANGED notUI

\* 300 ms have passed since the oldest waiting timer was set (line 220).
DelayElapses ==
    /\ \E t \in timers :
          /\ ~t.due
          /\ \A u \in timers : ~u.due => t.id <= u.id
          /\ timers' = (timers \ {t}) \cup {[t EXCEPT !.due = TRUE]}
    /\ UNCHANGED <<original_image, image_with_text, preview_photo,
                   image_entry, notes_text, text_x_position_percent,
                   text_y_position_percent, text_size, text_color_hex,
                   notes_update_after_id, after_count, ui_last>>
    /\ UNCHANGED notUI

\* Tk runs the oldest timer that is due: the lambda of line 220 calls
\* _update_preview_image.  _notes_update_after_id keeps the old id.
TimerFires ==
    /\ \E t \in timers :
          /\ t.due
          /\ \A u \in timers : u.due => t.id <= u.id
          /\ timers' = timers \ {t}
          /\ UpdatePreview(original_image, image_with_text, text_color_hex,
                           "timer", t.burst)
    /\ UNCHANGED <<original_image, image_entry, notes_text,
                   text_x_position_percent, text_y_position_percent,
                   text_size, text_color_hex, notes_update_after_id,
                   after_count>>
    /\ UNCHANGED notUI

\* The user types in the spinboxes or the colour entry (lines 112-132):
\* the variables follow, no handler runs.
EditOptions(options) ==
    /\ options # <<text_x_position_percent, text_y_position_percent,
                   text_size, text_color_hex>>
    /\ text_x_position_percent' = options[1]
    /\ text_y_position_percent' = options[2]
    /\ text_size' = options[3]
    /\ text_color_hex' = options[4]
    /\ ui_last' = Event("nothing")
    /\ UNCHANGED <<original_image, image_with_text, preview_photo,
                   image_entry, notes_text, notes_update_after_id, timers,
                   after_count>>
    /\ UNCHANGED notUI

\* A spinbox arrow, <FocusOut> or <Enter> on a spinbox or the colour entry
\* (lines 112-132): _update_preview_image()
UpdatePreviewImage ==
    /\ UpdatePreview(original_image, image_with_text, text_color_hex,
                     "update_preview", 0)
    /\ UNCHANGED <<original_image, image_entry, notes_text,
                   text_x_position_percent, text_y_position_percent,
                   text_size, text_color_hex, notes_update_after_id, timers,
                   after_count>>
    /\ UNCHANGED notUI

\* A dialog is closed without a choice: nothing follows in
\* _on_choose_text_color (line 171), _browse_button_pressed (line 258) and
\* _save_image (lines 267-268).
CancelDialog ==
    /\ ui_last' = Event("nothing")
    /\ UNCHANGED <<original_image, image_with_text, preview_photo,
                   image_entry, notes_text, text_x_position_percent,
                   text_y_position_percent, text_size, text_color_hex,
                   notes_update_after_id, timers, after_count>>
    /\ UNCHANGED notUI

\* _on_choose_text_color, lines 169-174, with the colour chosen
OnChooseTextColor(color_code) ==
    /\ text_color_hex' = color_code
    /\ UpdatePreview(original_image, image_with_text, color_code,
                     "choose_color", 0)
    /\ UNCHANGED <<original_image, image_entry, notes_text,
                   text_x_position_percent, text_y_position_percent,
                   text_size, notes_update_after_id, timers, after_count>>
    /\ UNCHANGED notUI

\* How _load_image() ends for what the entry holds, lines 186-202: "empty"
\* (line 188), "missing" (line 193), "undecodable" (Image.open raises, line
\* 199) or "loaded".
LoadResult(entry) ==
    LET image_path_str == Strip(entry)
    IN IF image_path_str = <<>> THEN "empty"
       ELSE IF DiskFile(image_path_str[1]) = "none" THEN "missing"
       ELSE IF DiskFile(image_path_str[1]) = "garbage" THEN "undecodable"
       ELSE "loaded"

\* _load_image(), lines 186-211, with the entry holding `entry`
LoadImage(entry) ==
    IF LoadResult(entry) = "loaded"
    THEN /\ original_image' = ConvertRGBA(WallFile)
         /\ UpdatePreview(ConvertRGBA(WallFile), ConvertRGBA(WallFile),
                          text_color_hex, "load_image", 0)
    ELSE /\ ui_last' = Event(LoadResult(entry))
         /\ UNCHANGED <<original_image, image_with_text, preview_photo>>

\* The focus leaves the image entry, in which the user has typed `entry`
\* (or left what it held): <FocusOut> (line 78) calls _load_image()
ImageEntryFocusOut(entry) ==
    /\ image_entry' = entry
    /\ LoadImage(entry)
    /\ UNCHANGED <<notes_text, text_x_position_percent,
                   text_y_position_percent, text_size, text_color_hex,
                   notes_update_after_id, timers, after_count>>
    /\ UNCHANGED notUI

\* _browse_button_pressed, lines 252-261, with a file chosen
BrowseButtonPressed(name) ==
    /\ image_entry' = <<name>>
    /\ LoadImage(<<name>>)
    /\ UNCHANGED <<notes_text, text_x_position_percent,
                   text_y_position_percent, text_size, text_color_hex,
                   notes_update_after_id, timers, after_count>>
    /\ UNCHANGED notUI

\* The Default button (line 82): _load_image(default=True), lines 179-183
\* and 206-211
LoadDefault ==
    /\ original_image' = DefaultBackground
    /\ image_entry' = <<>>
    /\ UpdatePreview(DefaultBackground, DefaultBackground, text_color_hex,
                     "load_default", 0)
    /\ UNCHANGED <<notes_text, text_x_position_percent,
                   text_y_position_percent, text_size, text_color_hex,
                   notes_update_after_id, timers, after_count>>
    /\ UNCHANGED notUI

\* _save_image, lines 266-277, with a path chosen: _image_with_text is
\* converted and written
SaveImage ==
    /\ ui_last' = [Event("save_image") EXCEPT
                      !.handed = ConvertPixelsRGB(image_with_text)]
    /\ UNCHANGED <<original_image, image_with_text, preview_photo,
                   image_entry, notes_text, text_x_position_percent,
                   text_y_position_percent, text_size, text_color_hex,
                   notes_update_after_id, timers, after_count>>
    /\ UNCHANGED notUI

\* _set_as_background, lines 283-289: set_background(source=
\* self._image_with_text)
SetAsBackground ==
    /\ ui_last' = [Event("set_as_background") EXCEPT
                      !.handed = image_with_text]
    /\ UNCHANGED <<original_image, image_with_text, preview_photo,
                   image_entry, notes_text, text_x_position_percent,
                   text_y_position_percent, text_size, text_color_hex,
                   notes_update_after_id, timers, after_count>>
    /\ UNCHANGED notUI

UINext ==
    \/ \E text \in NotesTexts : NotesKeyRelease(text)
    \/ DelayElapses
    \/ TimerFires
    \/ \E options \in OptionChoices : EditOptions(options)
    \/ UpdatePreviewImage
    \/ CancelDialog
    \/ \E color_code \in ChooserColors : OnChooseTextColor(color_code)
    \/ \E entry \in ImageEntries : ImageEntryFocusOut(entry)
    \/ \E entry \in ImageEntries \ {<<>>} : BrowseButtonPressed(entry[1])
    \/ LoadDefault
    \/ SaveImage
    \/ SetAsBackground

----------------------------------------------------------------------------
(* Claims about set_background *)

\* The step in which caller c leaves set_background (returns or raises).
Leaves(c) == pc[c] # "done" /\ pc'[c] = "done"

\* C1: a call that made a temporary file and reached the OS call leaves with
\* the temporary file deleted, by exactly one unlink of its own, whether the
\* OS call reported success or failure (a deletion that itself raised
\* OSError is set aside: the cleanup is best effort).
C1_TempDeletedAfterOSCall ==
    [][\A c \in Callers :
          (Leaves(c) /\ tmp_path[c] # NoPath /\ oscall'[c] # NoPath
             /\ ~unlink_err'[c])
          => (fs'[tmp_path[c]] = NoFile /\ unlinks'[c] = 1)]_vars

\* C2: on a platform other than Windows every call that has started is over
\* with NotImplementedError, whatever its source, and has created no
\* temporary file, resolved or checked no path and made no OS call.
C2_UnsupportedPlatformFirst ==
    platform # "Windows" =>
        /\ \A t \in TmpPaths : fs[t] = NoFile
        /\ \A c \in Callers :
              pc[c] # "idle" =>
                 /\ pc[c] = "done"
                 /\ outcome[c] = Raise("NotImplementedError")
                 /\ tmp_path[c] = NoPath
                 /\ image_path[c] = NoPath
                 /\ oscall[c] = NoPath
                 /\ result[c] = -1

\* C2's case: the call named a path that is no file, and the platform check
\* still decided the outcome.
C2_Witness ==
    \E c \in Callers :
        /\ platform # "Windows"
        /\ pc[c] = "done"
        /\ source[c].type = "path"
        /\ fs[Resolve(source[c].path)].kind # "file"
        /\ outcome[c] = Raise("NotImplementedError")

\* C3: on Windows a call whose path does not name an existing regular file
\* is over, once past line 155, with FileNotFoundError, with no OS call made
\* for it and no temporary file created.
C3_MissingFileNoOSCall ==
    \A c \in Callers :
        (/\ platform = "Windows"
         /\ source[c].type = "path"
         /\ fs[Resolve(source[c].path)].kind # "file"
         /\ pc[c] \notin {"idle", "L154"})
        => /\ pc[c] = "done"
           /\ outcome[c] = Raise("FileNotFoundError")
           /\ oscall[c] = NoPath
           /\ result[c] = -1
           /\ tmp_path[c] = NoPath

\* C3's cases: a missing path and a directory, both refused.
C3_Witness ==
    \E c \in Callers :
        /\ platform = "Windows"
        /\ pc[c] = "done"
        /\ source[c].type = "path"
        /\ fs[Resolve(source[c].path)].kind \in {"none", "dir"}
        /\ outcome[c] = Raise("FileNotFoundError")

\* C4: no step changes a file outside the temporary names, and a file only
\* ever disappears in the unlink step of a call whose source is an image and
\* which created that very file.
C4_ExternalPathUntouched ==
    [][/\ \A p \in ExtPaths : fs'[p] = fs[p]
       /\ \A p \in AllPaths :
             (fs[p] # NoFile /\ fs'[p] = NoFile) =>
                \E c \in Callers :
                    /\ pc[c] = "L172" /\ pc'[c] = "done"
                    /\ source[c].type = "image"
                    /\ tmp_path[c] = p]_vars

\* C4's case: a call on an existing external path has returned after a
\* successful OS call and the file is still there.
C4_Witness ==
    \E c \in Callers :
        /\ pc[c] = "done"
        /\ source[c].type = "path"
        /\ outcome[c] = Return(Resolve(source[c].path))
        /\ fs[Resolve(source[c].path)] = ExtFile

\* C5: a call that made the OS call ends with RuntimeError exactly when the
\* OS call returned 0 and otherwise returns the path it handed to the OS
\* call, also when the unlink raised OSError; and RuntimeError is raised by
\* no call whose OS call did not return 0.
C5_OutcomeDecidedByOSCall ==
    \A c \in Callers :
        pc[c] = "done" =>
           /\ oscall[c] # NoPath =>
                 /\ result[c] = 0 => outcome[c] = Raise("RuntimeError")
                 /\ result[c] # 0 => outcome[c] = Return(oscall[c])
           /\ outcome[c] = Raise("RuntimeError") =>
                 (oscall[c] # NoPath /\ result[c] = 0)

\* C5's case: the unlink raised OSError and the call returned all the same.
C5_Witness ==
    \E c \in Callers :
        /\ pc[c] = "done"
        /\ unlink_err[c]
        /\ result[c] = 1
        /\ outcome[c] = Return(oscall[c])

\* A call that has entered set_background and has not left it.
Live(c) == pc[c] \notin {"idle", "done"}

\* The step is one of call c.
StepOf(c) == pc'[c] # pc[c]

\* C11: when several calls with canvas sources run concurrently, in every
\* interleaving the temporary files of two live calls are different files;
\* a call creates, writes or deletes only a temporary file that it created
\* itself, never one created by another call; and the path a call hands to
\* the OS call is its own temporary file, holding what that call wrote.
C11_OwnTempFile ==
    [][/\ \A c, d \in Callers :
             (c # d /\ Live(c)' /\ Live(d)' /\ tmp_path'[c] # NoPath)
                 => tmp_path'[c] # tmp_path'[d]
       /\ \A c \in Callers : StepOf(c) =>
             /\ \A t \in TmpPaths : fs'[t] # fs[t] =>
                   /\ tmp_path'[c] = t
                   /\ tmp_owner[t] = IF fs[t] = NoFile THEN 0 ELSE c
                   /\ tmp_owner'[t] = IF fs'[t] = NoFile THEN 0 ELSE c
             /\ (IsImage(source[c]) /\ oscall'[c] # oscall[c]) =>
                   /\ oscall'[c] = tmp_path[c]
                   /\ tmp_owner[oscall'[c]] = c
                   /\ fs[oscall'[c]] = BmpFile(ConvertRGB(source[c].img))]_vars

\* Two calls with canvas sources are in the function together, each with a
\* temporary file of its own, and one of them has handed its file to the OS
\* while the other still has to.
C11_Witness ==
    \E c, d \in Callers :
        /\ c # d
        /\ IsImage(source[c]) /\ IsImage(source[d])
        /\ pc[c] = "L172" /\ oscall[c] = tmp_path[c]
        /\ pc[d] = "L159" /\ tmp_path[d] # NoPath
        /\ tmp_owner[tmp_path[c]] = c /\ tmp_owner[tmp_path[d]] = d

----------------------------------------------------------------------------
(* Claims about get_asset *)

----------------------------------------------------------------------------
(* Claims about the size resize_image returns *)

SourceFits == rs_target[1] >= rs_size[1] /\ rs_target[2] >= rs_size[2]

\* C7: with keep_aspect_ratio the returned width is at most min(w, W), the
\* returned height at most min(h, H) and both are at least 1; without it
\* the returned size is exactly (W, H).
C7_ResizeWithinBounds ==
    rs_out # NotCalled =>
        IF rs_keep
        THEN /\ rs_out[1] <= Min(rs_size[1], rs_target[1])
             /\ rs_out[2] <= Min(rs_size[2], rs_target[2])
             /\ rs_out[1] >= 1
             /\ rs_out[2] >= 1
        ELSE rs_out = rs_target

\* C7's case: a wide image scaled down so far that only the clamp to 1
\* keeps its height from becoming 0.
C7_Witness ==
    /\ rs_keep
    /\ rs_out # NotCalled
    /\ ~SourceFits
    /\ rs_size[2] * rs_target[1] < rs_size[1]
    /\ rs_out = <<rs_target[1], 1>>

\* C8 as stated: when the source does not fit the target, the larger of the
\* two returned dimensions equals its target dimension, and 1920x1080
\* resized to (650, 350) comes out as (650, 366).
C8_LargestDimensionHitsTarget ==
    (rs_keep /\ rs_out # NotCalled /\ ~SourceFits) =>
        /\ rs_out[1] > rs_out[2] => rs_out[1] = rs_target[1]
        /\ rs_out[2] > rs_out[1] => rs_out[2] = rs_target[2]
        /\ rs_out[1] = rs_out[2] =>
              (rs_out[1] = rs_target[1] \/ rs_out[2] = rs_target[2])
        /\ (rs_size = <<ScreenWidth, ScreenHeight>>
            /\ rs_target = <<PreviewWidth, PreviewHeight>>)
              => rs_out = <<650, 366>>

\* C8 as amended: when the source does not fit the target, the dimension
\* whose bound binds first equals its target dimension (the height when
\* W / H >= w / h, the width otherwise), the other one stays within its
\* target, and 1920x1080 resized to (650, 350) comes out as (622, 350).
C8_BindingDimensionHitsTarget ==
    (rs_keep /\ rs_out # NotCalled /\ ~SourceFits) =>
        /\ IF rs_target[1] * rs_size[2] >= rs_size[1] * rs_target[2]
           THEN rs_out[2] = rs_target[2] /\ rs_out[1] <= rs_target[1]
           ELSE rs_out[1] = rs_target[1] /\ rs_out[2] <= rs_target[2]
        /\ (rs_size = <<ScreenWidth, ScreenHeight>>
            /\ rs_target = <<PreviewWidth, PreviewHeight>>)
              => rs_out = <<622, 350>>

\* C8's case: the end-to-end scenario has run.
C8_Witness ==
    /\ rs_keep
    /\ rs_size = <<ScreenWidth, ScreenHeight>>
    /\ rs_target = <<PreviewWidth, PreviewHeight>>
    /\ rs_out = <<622, 350>>

----------------------------------------------------------------------------
(* Claims about add_text_to_image and resize_image on pixels *)

\* C9: a call of add_text_to_image, or of resize_image with in_place=False,
\* leaves the caller's canvas as it was (size and pixels) and returns
\* another object; what add_text_to_image returns has the canvas's size,
\* every pixel of it is the canvas's pixel or the text colour of this call
\* (nothing of an earlier call's text), and with empty text it equals the
\* canvas.
C9_InputNeverMutated ==
    [][(lastop'.op = "add_text" \/ (lastop'.op = "resize" /\ ~lastop'.in_place))
       => /\ canvas' = canvas
          /\ ~ret_alias'
          /\ lastop'.op = "add_text" =>
                /\ ret'.w = canvas.w /\ ret'.h = canvas.h
                /\ \A y \in 1..canvas.h : \A x \in 1..canvas.w :
                      ret'.px[y][x] \in {canvas.px[y][x], lastop'.color}
                /\ lastop'.empty => ret' = canvas]_vars

\* C9's case: text has been drawn twice on the same untouched canvas, in
\* another colour the second time; the second result shows the second
\* colour and nothing of the first.
C9_Witness ==
    /\ ~adopted
    /\ lastop.op = "add_text"
    /\ lastop.prev = "#FF0000"
    /\ lastop.color = "#FFFFFF"
    /\ \E c \in BaseColors : canvas = NewImage(CanvasDim, CanvasDim, c)
    /\ \E y \in 1..ret.h : \E x \in 1..ret.w : ret.px[y][x] = "#FFFFFF"
    /\ \A y \in 1..ret.h : \A x \in 1..ret.w : ret.px[y][x] # "#FF0000"

----------------------------------------------------------------------------
(* Claims about create_default_background *)

\* The screen holds the logo at the asked width, at its proportional height
\* rounded up, with the margin on every side.
ScreenHoldsLogo ==
    /\ df_screen[1] >= df_width + 2 * df_margin
    /\ df_screen[2] >= (df_width * df_logo.h) \div df_logo.w + 1 + 2 * df_margin

\* C10: on a screen that holds the logo plus margins, the returned image has
\* the screen's size, the logo is pasted with width ugent_logo_width, its box
\* has its top edge ugent_logo_margin below the top and its right edge
\* ugent_logo_margin left of the right edge, lies inside the image, and
\* every pixel outside the box has the brand colour.
C10_LogoAtTopRightMargins ==
    (df_out # NoImage /\ ScreenHoldsLogo) =>
        /\ df_out.w = df_screen[1] /\ df_out.h = df_screen[2]
        /\ df_box[3] - df_box[1] = df_width
        /\ df_box[2] = df_margin
        /\ df_screen[1] - df_box[3] = df_margin
        /\ df_box[1] >= 0 /\ df_box[4] <= df_screen[2]
        /\ \A y \in 1..df_out.h : \A x \in 1..df_out.w :
              (x <= df_box[1] \/ x > df_box[3] \/ y <= df_box[2] \/ y > df_box[4])
                 => df_out.px[y][x] = BrandColor

----------------------------------------------------------------------------
(* Claims about MainWindow *)

\* What add_text_to_image gives for the base canvas and the widgets as they
\* stand: the notes stripped, at the percentages of the base canvas's size,
\* in the size and colour entered.
Annotation ==
    DrawText(original_image, Strip(NotesGet(notes_text)),
             <<Scale(text_x_position_percent, original_image.w),
               Scale(text_y_position_percent, original_image.h)>>,
             text_size, text_color_hex)

\* The handlers in which a load succeeded.
Loads == {"load_image", "load_default"}

\* C12: the base canvas changes only in a successful load (a decodable
\* existing file, or the Default button): refreshes, failed loads (empty
\* entry, missing or undecodable file) and cancelled dialogs leave it as
\* it was.  After every preview refresh the annotated canvas is
\* add_text_to_image of the current base canvas with the text, size, colour
\* and percentage position (scaled by the base canvas's size) read in that
\* refresh, never of an earlier annotated canvas.
C12_BaseAndAnnotation ==
    [][/\ ui_last'.ev \notin Loads =>
             original_image' = original_image
       /\ ui_last'.ev \in {"empty", "missing", "undecodable", "nothing"} =>
             image_with_text' = image_with_text
       /\ ui_last'.refreshed =>
             /\ image_with_text' = Annotation'
             /\ preview_photo' = Preview(Annotation')]_vars

\* C12's case: on a loaded file, a refresh has run over an annotated canvas
\* that carried other text: the new canvas shows the text of this refresh
\* at its place and the pixels of the base canvas everywhere else.
C12_Witness ==
    /\ ui_last.ev = "update_preview"
    /\ ui_last.refreshed
    /\ ui_last.over
    /\ original_image = ConvertRGBA(WallFile)
    /\ notes_text = <<"a", " ">>
    /\ text_x_position_percent = 50
    /\ text_y_position_percent = 50
    /\ text_size = 1
    /\ text_color_hex = "#FFFFFF"
    /\ image_with_text.px[2][3] = "#FFFFFF"
    /\ \A y \in 1..2 : \A x \in 1..4 :
          <<x, y>> # <<3, 2>> => image_with_text.px[y][x] = original_image.px[y][x]

\* The step in which a timer ran.
TimerRan == after_count' = after_count /\ timers' # timers /\ timers' \subseteq timers

\* C13: key releases in the notes box are coalesced.  Each key release
\* cancels the update scheduled before and schedules a new one, so at most
\* one is pending at any time; an update runs only once the delay has passed
\* since the last key release, it is the one that key release scheduled,
\* none is pending after it (one overlay per burst), and it draws the text
\* the notes box holds when it runs; and a pending update eventually runs.
C13_Debounce ==
    /\ [](Cardinality(timers) <= 1)
    /\ [][/\ after_count' # after_count =>
                timers' = {[id |-> notes_update_after_id', due |-> FALSE,
                            burst |-> (CHOOSE t \in timers' : TRUE).burst]}
          /\ TimerRan =>
                /\ timers = {[id |-> notes_update_after_id, due |-> TRUE,
                              burst |-> ui_last'.burst]}
                /\ timers' = {}
                /\ ui_last'.ev = "timer"
                /\ notes_text' = notes_text
                /\ ui_last'.refreshed
                /\ image_with_text' = Annotation']_vars
    /\ (timers # {}) ~> (ui_last.ev = "timer" /\ timers = {})

\* C13's case: a burst of two key releases, the second before the delay of
\* the first had passed, has ended in one update, which drew the text of
\* the second key release.
C13_Witness ==
    /\ ui_last.ev = "timer"
    /\ ui_last.burst = 2
    /\ ui_last.refreshed
    /\ after_count = 2
    /\ timers = {}
    /\ notes_text = <<"a", "b">>
    /\ image_with_text = Annotation
    /\ image_with_text # original_image

\* C14: the canvas that Set as Desktop Background hands to set_background,
\* and the canvas that Save Image writes (converted to RGB), is
\* add_text_to_image of the current base canvas with the notes, position,
\* size and colour as they stand at that moment; in particular not a canvas
\* annotated before an edit whose update is still pending.
C14_HandsCurrentAnnotation ==
    /\ ui_last.ev = "set_as_background" => ui_last.handed = Annotation
    /\ ui_last.ev = "save_image"
          => ui_last.handed = ConvertPixelsRGB(Annotation)

----------------------------------------------------------------------------
(* Specifications *)

InitInstall ==
    InstallInit /\ AssetIdle /\ ResizeIdle /\ CanvasIdle /\ DefaultIdle
    /\ UIIdle
SpecInstall == InitInstall /\ [][InstallNext]_vars

InitAsset ==
    AssetInit /\ InstallIdle /\ ResizeIdle /\ CanvasIdle /\ DefaultIdle
    /\ UIIdle
SpecAsset == InitAsset /\ [][AssetNext]_vars

InitResize ==
    ResizeInit /\ InstallIdle /\ AssetIdle /\ CanvasIdle /\ DefaultIdle
    /\ UIIdle
SpecResize == InitResize /\ [][ResizeNext]_vars

InitCanvas ==
    CanvasInit /\ InstallIdle /\ AssetIdle /\ ResizeIdle /\ DefaultIdle
    /\ UIIdle
SpecCanvas == InitCanvas /\ [][CanvasNext]_vars

InitDefault ==
    DefaultInit /\ InstallIdle /\ AssetIdle /\ ResizeIdle /\ CanvasIdle
    /\ UIIdle
SpecDefault == InitDefault /\ [][DefaultNext]_vars

InitUI ==
    UIInit /\ InstallIdle /\ AssetIdle /\ ResizeIdle /\ CanvasIdle
    /\ DefaultIdle
SpecUI == InitUI /\ [][UINext]_vars

\* Time passes and Tk's main loop runs the timers that are due: a pending
\* timer is not left as it is for ever.
SpecUIFair ==
    InitUI /\ [][UINext]_vars /\ WF_vars(DelayElapses \/ TimerFires)

====
